---- MODULE Spec2Model ----
(***************************************************************************)
(* A state-machine model of the Russian-roulette duel engine of            *)
(* src/game.py: GameState (gun, logs, Reverse and Contract modifiers),     *)
(* Player (alive flag, inventory) and GameController (setup, item          *)
(* handling, the per-turn sequence and the run_game loop).                 *)
(*                                                                         *)
(* The engine is sequential.  One turn is split at the points where the    *)
(* code consumes one part of the Agent's answer: the item step, the        *)
(* communication step and the fire step; run_game's loop tail is a step of *)
(* its own.  The Agent's answer is free text, so each part of it is an     *)
(* arbitrary choice made where the code reads it.                          *)
(*                                                                         *)
(* Free text (names, personas, messages) is not interpreted by the engine  *)
(* and is left out of the log entries; everything the engine computes      *)
(* (positions, results, item names, who acted) is kept.                    *)
(*                                                                         *)
(* The engine only appends to its two logs and reads them back only to     *)
(* paste them into Agent requests and the final printout.  The model keeps *)
(* the part of each log written since the current turn began (the setup    *)
(* entries until the first turn is over); run_game's loop tail starts the  *)
(* next turn with an empty part.                                           *)
(***************************************************************************)
EXTENDS Integers, Sequences, FiniteSets

\* ------------------------------------------------------------------ bounds
\* Largest chamber_count explored (the code accepts any integer).
MaxChambers == 3

\* The chamber counts of the item distribution taken alone.
MinDealChambers == 28
MaxDealChambers == 31

\* ------------------------------------------------------- program constants
\* max_turns of run_game.
max_turns == 30
\* Number of fires a contract lasts (activate_contract).
ContractTurns == 3
\* The two players of a duel are 0 and 1; NoOne stands for Python's None.
NoOne == 2

Players == {0, 1}
ItemKinds == {"Bullet", "Check", "Reverse", "Contract", "Push"}

VARIABLES
    chamber_count,        \* GameState.chamber_count
    bullets,              \* GameState.bullets: sorted list of chamber indices
    current_position,     \* GameState.current_position
    logs,                 \* GameState.logs, the entries appended in the current turn
    player_logs,          \* GameState.player_logs, the entries appended in the current turn
    contract_active,      \* GameState.contract_active
    contract_turns_left,  \* GameState.contract_turns_left
    reverse_active,       \* GameState.reverse_active
    last_active_player,   \* GameState.last_active_player
    alive,                \* Player.alive, per player
    items,                \* Player.items, per player, as kind -> number of units
    llm_client,           \* per player: TRUE iff Player.llm_client is not None
    current_player_idx,   \* GameController.current_player_idx
    turn_count,           \* run_game: turn_count
    game_active,          \* run_game: game_active
    pc,                   \* position in run_game / process_player_turn
    result,               \* process_player_turn: what handle_item_usage returned
    declared,             \* process_player_turn: parsed target (after the default)
    target,               \* process_player_turn: target after the reverse rule
    was_hit,              \* process_player_turn: was_hit
    contract_at_fire,     \* contract_turns_left at the moment fire() was called
    reverse_pending,      \* a Reverse of the other player was pending when the turn began
    verdict,              \* run_game: the final classification printed
    parsed_missing,       \* parse_response: the keys absent from the parsed answer of the turn
    fires                 \* the fires of the match so far; -1 once a Push has been used

vars == <<chamber_count, bullets, current_position, logs, player_logs,
          contract_active, contract_turns_left, reverse_active,
          last_active_player, alive, items, llm_client, current_player_idx,
          turn_count, game_active, pc, result, declared, target, was_hit,
          contract_at_fire, reverse_pending, verdict, parsed_missing, fires>>

gun == <<chamber_count, bullets, current_position>>
contract == <<contract_active, contract_turns_left>>
reverse == <<reverse_active, last_active_player>>
loop == <<current_player_idx, turn_count, game_active, verdict>>
fire_locals == <<declared, target, was_hit, contract_at_fire>>
turn_locals == <<result, reverse_pending, fire_locals>>

\* ----------------------------------------------------------------- helpers
Range(s) == {s[i] : i \in 1..Len(s)}

Min(S) == CHOOSE m \in S : \A x \in S : m <= x

RECURSIVE SortedSeq(_)
\* sorted(list) for a list of distinct integers given as a set
SortedSeq(S) == IF S = {} THEN <<>>
                ELSE <<Min(S)>> \o SortedSeq(S \ {Min(S)})

RECURSIVE Insert(_, _)
\* list.append(x) followed by list.sort(), for a sorted list s
Insert(s, x) == IF s = <<>> THEN <<x>>
                ELSE IF x <= Head(s) THEN <<x>> \o s
                ELSE <<Head(s)>> \o Insert(Tail(s), x)

RECURSIVE Total(_, _)
Total(f, S) == IF S = {} THEN 0
               ELSE LET k == CHOOSE k \in S : TRUE
                    IN f[k] + Total(f, S \ {k})

\* A log entry.  Unused fields hold "", NoOne, -1 or <<>>.
Entry(kind, who, item, pos, res, n, bul) ==
    [kind |-> kind, who |-> who, item |-> item, pos |-> pos, res |-> res,
     n |-> n, bul |-> bul]

\* The value handle_item_usage returns (player_message), "not_called", or the
\* exception that left the turn.
Result(msg, pos) == [msg |-> msg, pos |-> pos]
NoResult == Result("not_called", -1)

\* ------------------------------------------------------------------- setup
\* Variant of BulletCounts: up to chamber_count bullets are loaded.
BulletCounts_up_to_all(N) == 1..N

\* initialize_gun: bullet_count = random.randint(1, chamber_count // 2)
BulletCounts(N) == 1..(N \div 2)

\* game_en.py, initialize_gun: bullet_count = random.randint(1, chamber_count // 3);
\* randint raises ValueError for an empty range, so the set is empty then.
BulletCounts_en(N) == 1..(N \div 3)

\* setup_game: item_count = (chamber_count + 2) // 3
item_count(N) == (N + 2) \div 3

\* setup_game: the pool holds len(players) + 2 units of every kind
PoolPerKind == Cardinality(Players) + 2

\* The inventories setup_game can deal to the two players.
\* Line 268: len(available_items)
pool_size == Cardinality(ItemKinds) * PoolPerKind

\* Line 275: len(available_items[i*c:(i+1)*c]); a slice ends where the list ends
slice_len(i, c) == Min({(i + 1) * c, pool_size}) - Min({i * c, pool_size})

\* The hands of n units that can be taken from what is left of each kind.
Hands(n, left) ==
    {h \in [ItemKinds -> 0..PoolPerKind] :
        /\ \A k \in ItemKinds : h[k] <= left[k]
        /\ Total(h, ItemKinds) = n}

\* Lines 268-277: the inventories the slices of the shuffled pool can give.
Deals(N) ==
    LET c == item_count(N)
        all == [k \in ItemKinds |-> PoolPerKind]
    IN UNION {{[p \in Players |-> IF p = 0 THEN h0 ELSE h1] :
                  h1 \in Hands(slice_len(1, c),
                               [k \in ItemKinds |-> PoolPerKind - h0[k]])} :
              h0 \in Hands(slice_len(0, c), all)}

\* Variant of InitialBullets: initialize_gun loads no bullet at all.
InitialBullets_empty(N) == {<<>>}

\* The gun states initialize_gun can produce for chamber_count N.
InitialBullets(N) ==
    {SortedSeq(S) : S \in {T \in SUBSET (0..(N - 1)) :
                              Cardinality(T) \in BulletCounts(N)}}

\* The gun states initialize_gun of game_en.py can produce.
InitialBullets_en(N) ==
    {SortedSeq(S) : S \in {T \in SUBSET (0..(N - 1)) :
                              Cardinality(T) \in BulletCounts_en(N)}}

\* Variant of player_init_entry: the participant entry lists the positions.
player_init_entry_full(pos, bs) == Entry("init", NoOne, "", pos, "", Len(bs), bs)

\* initialize_gun line 84: the setup entry of the participant log
player_init_entry(pos, bs) == Entry("init", NoOne, "", pos, "", Len(bs), <<>>)

\* initialize_gun line 81: the setup entry of the spectator log
spectator_init_entry(pos, bs) == Entry("init", NoOne, "", pos, "", Len(bs), bs)

Init ==
    /\ chamber_count \in 2..MaxChambers
    /\ bullets \in InitialBullets(chamber_count)
    /\ current_position \in 0..(chamber_count - 1)
    /\ logs = <<spectator_init_entry(current_position, bullets)>>
    /\ player_logs = <<player_init_entry(current_position, bullets)>>
    /\ contract_active = FALSE
    /\ contract_turns_left = 0
    /\ reverse_active = FALSE
    /\ last_active_player = NoOne
    /\ alive = [p \in Players |-> TRUE]
    /\ items \in Deals(chamber_count)
    /\ llm_client \in [Players -> BOOLEAN]
    /\ current_player_idx \in Players
    /\ turn_count = 0
    /\ game_active = TRUE
    /\ pc = "turn"
    /\ result = NoResult
    /\ declared = "none"
    /\ target = "none"
    /\ was_hit = FALSE
    /\ contract_at_fire = 0
    /\ reverse_pending = FALSE
    /\ verdict = "none"
    /\ parsed_missing = {}
    /\ fires = 0

\* --------------------------------------------------------------- GameState
\* add_bullet: empty_chambers
empty_chambers(bs, N) == {i \in 0..(N - 1) : i \notin Range(bs)}

\* Variant of add_bullet_choices: the new bullet goes to any chamber.
add_bullet_any_chamber(bs, N) == 0..(N - 1)

\* add_bullet: the chambers random.choice may pick for the new bullet
add_bullet_choices(bs, N) == empty_chambers(bs, N)

\* Variant of add_bullet: the new bullet takes the place of the last one.
add_bullet_overwrite(bs, new_bullet) ==
    SortedSeq((Range(bs) \ {bs[Len(bs)]}) \cup {new_bullet})

\* add_bullet lines 95-96: bullets.append(new_bullet); bullets.sort()
add_bullet(bs, new_bullet) == Insert(bs, new_bullet)

\* Variant of has_bullet: the 1-based position is looked up.
has_bullet_one_based(bs, position) == (position + 1) \in Range(bs)

\* check_chamber: has_bullet
has_bullet(bs, position) == position \in Range(bs)

\* Variant of move_position: the trigger skips a chamber.
move_position_skips(pos, N) == (pos + 2) % N

\* Variant of move_position: the trigger moves on without wrapping around.
move_position_no_wrap(pos, N) == pos + 1

\* move_position: the new current_position
move_position(pos, N) == (pos + 1) % N

\* activate_contract: the new contract_turns_left
activate_contract == ContractTurns

\* Variant of was_bullet: the chamber before the trigger is tested.
was_bullet_previous_chamber(bs, pos) == (pos - 1) \in Range(bs)

\* fire: was_bullet
was_bullet(bs, pos) == pos \in Range(bs)

\* Variant of fire_position: the trigger advances without wrapping around.
fire_position_no_wrap(pos, N) == pos + 1

\* fire: the new current_position
fire_position(pos, N) == (pos + 1) % N

\* Variant of fire_turns_left: the counter goes down whether or not a
\* contract is active.
fire_turns_left_always(active, left) == left - 1

\* fire: contract_turns_left after the countdown
fire_turns_left(active, left) == IF active THEN left - 1 ELSE left

\* Variant of fire_contract_active: the contract ends one fire late.
fire_contract_active_late(active, left) ==
    IF active /\ fire_turns_left(active, left) < 0 THEN FALSE ELSE active

\* fire: contract_active after the countdown
fire_contract_active(active, left) ==
    IF active /\ fire_turns_left(active, left) <= 0 THEN FALSE ELSE active

\* ------------------------------------------------------------------ Player
\* Variant of remove_item: a unit of the kind is added to the inventory.
remove_item_adds(inv, item) == [inv EXCEPT ![item] = inv[item] + 1]

\* Variant of remove_item: the inventory is left as it is.
remove_item_keeps(inv, item) == inv

\* remove_item: one unit of the kind leaves the inventory
remove_item(inv, item) ==
    IF inv[item] > 0 THEN [inv EXCEPT ![item] = inv[item] - 1] ELSE inv

\* ---------------------------------------------------------- GameController
\* get_opponent
get_opponent(p) == (p + 1) % Cardinality(Players)

\* handle_item_usage: the entry appended to the spectator log
spectator_use_entry(p, item, spec_res, spec_pos) ==
    Entry("use", p, item, spec_pos, spec_res, -1, <<>>)

\* Variant of player_use_entry: the participant entry does not name the user.
player_use_entry_anonymous(p, item) == Entry("use", NoOne, item, -1, "", -1, <<>>)

\* handle_item_usage: the entry appended to the participant log
player_use_entry(p, item) == Entry("use", p, item, -1, "", -1, <<>>)

\* The player whose turn is being processed.
player == current_player_idx
opponent == get_opponent(current_player_idx)

\* Lines 436-471: what the request of a turn shows to the acting player's
\* Agent of the engine's state (the log is the whole participant log, of which
\* the model holds the part written in the current turn).
turn_request ==
    [to |-> player, log |-> player_logs, position |-> current_position,
     chambers |-> chamber_count, contract |-> contract_active,
     items |-> items[player]]

\* get_neg_prompt: what the negotiation request shows to the opponent's Agent.
neg_request ==
    [to |-> opponent, log |-> player_logs, position |-> current_position,
     chambers |-> chamber_count, contract |-> contract_active,
     items |-> items[opponent]]

\* The Agent of the acting player answered the turn request (send_message
\* returned) and process_player_turn reaches its item step.
AtItemStep == pc = "turn" /\ llm_client[player]

\* Common tail of the item step: the turn continues with communication.
ItemStepEnds(res) ==
    /\ result' = res
    /\ reverse_pending' = (reverse_active /\ last_active_player = opponent)
    /\ pc' = "comm"
    /\ UNCHANGED <<chamber_count, alive, llm_client, loop, fire_locals>>

\* parse_response lines 321-332: the item named by the item section; no
\* "item" key when the markers are missing, None for "do not use".
parse_item(section) ==
    IF section \in {"missing", "no_use"} THEN "none" ELSE section

\* parse_response: the keys the answer leaves out of the parsed dict
absent_key(key, section) == IF section = "missing" THEN {key} ELSE {}

\* handle_item_usage lines 399-405: both logs gain the "used" entry.
LogsGainUse(before, item, spec_res, spec_pos) ==
    /\ logs' = before \o <<spectator_use_entry(player, item, spec_res, spec_pos)>>
    /\ player_logs' = Append(player_logs, player_use_entry(player, item))

\* Variant of holds: any item of the game passes, held or not.
holds_any(inv, item) == item \in ItemKinds

\* Line 362: "item not in player.items", negated; inv counts the units of each
\* kind of the game, a name outside the game is in no inventory.
holds(inv, item) == item \in ItemKinds /\ inv[item] > 0

\* The answer names no item (section missing, or "do not use").
NoItem ==
    /\ AtItemStep
    /\ \E section \in {"missing", "no_use"} :
          /\ parse_item(section) = "none"
          /\ parsed_missing' = parsed_missing \cup absent_key("item", section)
    /\ UNCHANGED fires
    /\ ItemStepEnds(NoResult)
    /\ UNCHANGED <<bullets, current_position, logs, player_logs, contract,
                   reverse, items>>

\* The answer names an item the player does not hold, or no item at all
\* of the game.
InvalidItem ==
    /\ AtItemStep
    /\ UNCHANGED <<parsed_missing, fires>>
    /\ \E item \in ItemKinds \cup {"Unknown"} : ~holds(items[player], item)
    /\ ItemStepEnds(Result("invalid_item", -1))
    /\ UNCHANGED <<bullets, current_position, logs, player_logs, contract,
                   reverse, items>>

\* Bullet: add_bullet loads one of the empty chambers, or reports that every
\* chamber is loaded; the unit is removed either way.
UseBullet ==
    /\ AtItemStep
    /\ UNCHANGED <<parsed_missing, fires>>
    /\ holds(items[player], "Bullet")
    /\ IF add_bullet_choices(bullets, chamber_count) # {}
       THEN /\ \E new_bullet \in add_bullet_choices(bullets, chamber_count) :
                  /\ bullets' = add_bullet(bullets, new_bullet)
                  /\ LogsGainUse(logs, "Bullet", "bullet_added", new_bullet)
            /\ ItemStepEnds(Result("bullet_added", -1))
       ELSE /\ bullets' = bullets
            /\ LogsGainUse(logs, "Bullet", "chambers_full", -1)
            /\ ItemStepEnds(Result("chambers_full", -1))
    /\ items' = [items EXCEPT ![player] = remove_item(@, "Bullet")]
    /\ UNCHANGED <<current_position, contract, reverse>>

\* Check with a parameter int() accepts; position = int(param) - 1 is in range.
UseCheck ==
    /\ AtItemStep
    /\ UNCHANGED <<parsed_missing, fires>>
    /\ holds(items[player], "Check")
    /\ \E param \in 1..chamber_count :
          LET position == param - 1
              found == has_bullet(bullets, position)
              seen == IF found THEN "bullet" ELSE "empty"
          IN /\ LogsGainUse(Append(logs, Entry("check", player, "", position,
                                                 seen, -1, <<>>)),
                            "Check", "checked", position)
             /\ ItemStepEnds(Result(IF found THEN "has_bullet" ELSE "is_empty",
                                    position))
    /\ items' = [items EXCEPT ![player] = remove_item(@, "Check")]
    /\ UNCHANGED <<bullets, current_position, contract, reverse>>

\* Check with a numeric parameter out of 1..chamber_count (0 stands for every
\* integer below the range, chamber_count + 1 for every integer above it).
UseCheckOutOfRange ==
    /\ AtItemStep
    /\ UNCHANGED <<parsed_missing, fires>>
    /\ holds(items[player], "Check")
    /\ \E param \in {0, chamber_count + 1} :
          LET position == param - 1
          IN position < 0 \/ position >= chamber_count
    /\ LogsGainUse(logs, "Check", "invalid_position", -1)
    /\ ItemStepEnds(Result("invalid_position", -1))
    /\ UNCHANGED <<bullets, current_position, contract, reverse, items>>

\* Line 374: what int(param) raises for a parameter that is no number: None
\* (no parameter in the answer) or a text int() rejects.
int_error(param) == IF param = "none" THEN "TypeError" ELSE "ValueError"

\* Variant of check_catches: only ValueError is caught.
check_catches_value_error(exc) == exc = "ValueError"

\* Line 382: except (ValueError, TypeError)
check_catches(exc) == exc \in {"ValueError", "TypeError"}

\* Check with no parameter (TypeError) or a non-numeric one (ValueError): the
\* except clause turns the exception into a message; an exception it does not
\* catch leaves handle_item_usage, the turn and run_game.
UseCheckBadParam ==
    /\ AtItemStep
    /\ UNCHANGED <<parsed_missing, fires>>
    /\ holds(items[player], "Check")
    /\ \E param \in {"none", "text"} :
          IF check_catches(int_error(param))
          THEN /\ LogsGainUse(logs, "Check", "need_position", -1)
               /\ ItemStepEnds(Result("need_position", -1))
          ELSE /\ result' = Result(int_error(param), -1)
               /\ pc' = "error"
               /\ UNCHANGED <<logs, player_logs, reverse_pending, chamber_count,
                              alive, llm_client, loop, fire_locals>>
    /\ UNCHANGED <<bullets, current_position, contract, reverse, items>>

UseReverse ==
    /\ AtItemStep
    /\ UNCHANGED <<parsed_missing, fires>>
    /\ holds(items[player], "Reverse")
    /\ items' = [items EXCEPT ![player] = remove_item(@, "Reverse")]
    /\ reverse_active' = TRUE
    /\ last_active_player' = player
    /\ LogsGainUse(logs, "Reverse", "reverse_on", -1)
    /\ ItemStepEnds(Result("reverse_on", -1))
    /\ UNCHANGED <<bullets, current_position, contract>>

UseContract ==
    /\ AtItemStep
    /\ UNCHANGED <<parsed_missing, fires>>
    /\ holds(items[player], "Contract")
    /\ items' = [items EXCEPT ![player] = remove_item(@, "Contract")]
    /\ contract_active' = TRUE
    /\ contract_turns_left' = activate_contract
    /\ LogsGainUse(logs, "Contract", "contract_on", -1)
    /\ ItemStepEnds(Result("contract_on", -1))
    /\ UNCHANGED <<bullets, current_position, reverse>>

UsePush ==
    /\ AtItemStep
    /\ UNCHANGED parsed_missing
    /\ fires' = -1
    /\ holds(items[player], "Push")
    /\ items' = [items EXCEPT ![player] = remove_item(@, "Push")]
    /\ current_position' = move_position(current_position, chamber_count)
    /\ LogsGainUse(logs, "Push", "moved", current_position')
    /\ ItemStepEnds(Result("moved", current_position'))
    /\ UNCHANGED <<bullets, contract, reverse>>

\* ------------------------------------------------------------ communication
\* The answers the opponent's Agent may give to a proposal; only the presence
\* of the accept keyword matters to the engine ("not_agree" contains it).
Responses == {"agree", "refuse", "not_agree", "other"}

\* process_player_turn line 529: the accept keyword occurs in the response
is_accepted(response) == response \in {"agree", "not_agree"}

\* Variant of CommLogged: the new entries are put in front of the logs.
CommLogged_in_front(entries) ==
    /\ logs' = entries \o logs
    /\ player_logs' = entries \o player_logs

\* add_player_communication: the same entry goes to both logs
CommLogged(entries) ==
    /\ logs' = logs \o entries
    /\ player_logs' = player_logs \o entries

CommFrame ==
    UNCHANGED <<gun, contract, reverse, alive, items, llm_client,
                current_player_idx, turn_count, verdict, turn_locals>>

\* parse_response lines 335-349 and the else branch of line 541: without a
\* "communication" key the player stays silent.
parse_communication(section) ==
    IF section \in {"missing", "silent"} THEN "silent" ELSE section

\* Variant of uncaught: run_game catches the exception of a turn and goes on.
uncaught_none(exc) == FALSE

\* Lines 479-482, 523 and 602-616: no try statement encloses the calls of
\* send_message or the call of process_player_turn, so an exception raised in
\* a turn leaves run_game.  llm_client.send_message raises Exception for every
\* failure of the backend.
uncaught(exc) == exc \in {"Exception", "AttributeError", "TypeError", "ValueError"}

\* Silent, or no communication section at all (the else branch).
CommSilent ==
    /\ pc = "comm"
    /\ \E section \in {"missing", "silent"} :
          /\ parse_communication(section) = "silent"
          /\ parsed_missing' = parsed_missing \cup absent_key("communication", section)
    /\ UNCHANGED fires
    /\ CommLogged(<<Entry("silent", player, "", -1, "", -1, <<>>)>>)
    /\ pc' = "fire"
    /\ UNCHANGED game_active
    /\ CommFrame

CommTalk ==
    /\ pc = "comm"
    /\ UNCHANGED <<parsed_missing, fires>>
    /\ CommLogged(<<Entry("talk", player, "", -1, "", -1, <<>>)>>)
    /\ pc' = "fire"
    /\ UNCHANGED game_active
    /\ CommFrame

\* Negotiate: the proposal is logged, the opponent's Agent answers, the answer
\* is logged; an accepting answer makes process_player_turn return False.
NegotiateAccepted ==
    /\ pc = "comm"
    /\ UNCHANGED <<parsed_missing, fires>>
    /\ llm_client[opponent]
    /\ \E response \in Responses :
          /\ is_accepted(response)
          /\ CommLogged(<<Entry("propose", player, "", -1, "", -1, <<>>),
                          Entry("response", opponent, "", -1, response, -1, <<>>)>>)
    /\ game_active' = FALSE
    /\ pc' = "ret"
    /\ CommFrame

NegotiateDeclined ==
    /\ pc = "comm"
    /\ UNCHANGED <<parsed_missing, fires>>
    /\ llm_client[opponent]
    /\ \E response \in Responses :
          /\ ~is_accepted(response)
          /\ CommLogged(<<Entry("propose", player, "", -1, "", -1, <<>>),
                          Entry("response", opponent, "", -1, response, -1, <<>>)>>)
    /\ pc' = "fire"
    /\ UNCHANGED game_active
    /\ CommFrame

\* Negotiate, and the opponent's send_message raises, or the opponent has no
\* llm_client (AttributeError): the exception leaves run_game.
NegotiateFails ==
    /\ pc = "comm"
    /\ UNCHANGED <<parsed_missing, fires>>
    /\ CommLogged(<<Entry("propose", player, "", -1, "", -1, <<>>)>>)
    /\ LET exc == IF llm_client[opponent] THEN "Exception" ELSE "AttributeError"
       IN /\ result' = Result(exc, -1)
          /\ pc' = IF uncaught(exc) THEN "error" ELSE "ret"
    /\ UNCHANGED game_active
    /\ UNCHANGED <<gun, contract, reverse, alive, items, llm_client,
                   current_player_idx, turn_count, verdict, reverse_pending,
                   fire_locals>>

\* -------------------------------------------------------------------- fire
\* Variant of parse_target: without a fire section the player fires at itself.
parse_target_self(section) == IF section = "other" THEN "opponent" ELSE "self"

\* parse_response / line 547: the declared target
parse_target(section) == IF section = "self" THEN "self" ELSE "opponent"

\* Variant of reverse_applies: an active Reverse flips whoever fires.
reverse_applies_anyone(active, activated_by, actor) == active

\* line 550: the reverse rule applies to this actor
reverse_applies(active, activated_by, actor) == active /\ activated_by # actor

\* line 551
flip_target(t) == IF t = "opponent" THEN "self" ELSE "opponent"

\* Variant of hit_target: a hit always kills the opponent of the actor.
hit_target_opponent(al, actor, t) == [al EXCEPT ![get_opponent(actor)] = FALSE]

\* lines 567-574: alive flags after a hit on the target
hit_target(al, actor, t) ==
    IF t = "self" THEN [al EXCEPT ![actor] = FALSE]
    ELSE [al EXCEPT ![get_opponent(actor)] = FALSE]

\* Variant of turn_returns: the turn returns True after a hit as well.
turn_returns_true(hit) == TRUE

\* Lines 565-583: process_player_turn returns False after a hit (lines 570 and
\* 574), True after an empty chamber (line 583).
turn_returns(hit) == ~hit

\* fire: the entries appended to both logs
fire_entries(hit, pos, active, left) ==
    <<Entry("fire", NoOne, "", pos, IF hit THEN "hit" ELSE "empty", -1, <<>>)>>
    \o (IF active /\ ~fire_contract_active(active, left)
        THEN <<Entry("contract_end", NoOne, "", -1, "", -1, <<>>)>>
        ELSE <<>>)

\* Lines 546-583: the reverse rule, GameState.fire and the hit handling.
\* reset_reverse (lines 553-558) is set and cleared within the step, so
\* reverse_active is cleared exactly when the rule applied.
Fire ==
    /\ pc = "fire"
    /\ \E section \in {"missing", "self", "other"} :
          /\ declared' = parse_target(section)
          /\ parsed_missing' = parsed_missing \cup absent_key("target", section)
          /\ target' = IF reverse_applies(reverse_active, last_active_player, player)
                       THEN flip_target(declared') ELSE declared'
    /\ reverse_active' =
          IF reverse_applies(reverse_active, last_active_player, player)
          THEN FALSE ELSE reverse_active
    /\ was_hit' = was_bullet(bullets, current_position)
    /\ fires' = IF fires < 0 THEN fires ELSE fires + 1
    /\ CommLogged(fire_entries(was_hit', current_position, contract_active,
                               contract_turns_left))
    /\ current_position' = fire_position(current_position, chamber_count)
    /\ contract_turns_left' = fire_turns_left(contract_active, contract_turns_left)
    /\ contract_active' = fire_contract_active(contract_active, contract_turns_left)
    /\ contract_at_fire' = IF contract_active THEN contract_turns_left ELSE 0
    /\ alive' = IF was_hit' THEN hit_target(alive, player, target') ELSE alive
    /\ game_active' = turn_returns(was_hit')
    /\ pc' = "ret"
    /\ UNCHANGED <<chamber_count, bullets, last_active_player, items, llm_client,
                   current_player_idx, turn_count, verdict, result,
                   reverse_pending>>

\* ---------------------------------------------------------------- run_game
\* Variant of check_contract_effect: an active contract kills both players
\* whenever the match ends, hit or not.
check_contract_effect_always(active, al) ==
    IF active THEN [p \in Players |-> FALSE] ELSE al

\* check_contract_effect, called under run_game's own contract_active test
check_contract_effect(active, al) ==
    IF active /\ (\E p \in Players : ~al[p])
    THEN [p \in Players |-> FALSE] ELSE al

\* Variant of final_classification: the all-alive case is not told apart.
final_classification_no_draw(al) ==
    IF \A p \in Players : ~al[p] THEN "all_dead" ELSE "win"

\* Lines 622-631: the classification printed at the end of the match.
final_classification(al) ==
    IF \A p \in Players : ~al[p] THEN "all_dead"
    ELSE IF \A p \in Players : al[p] THEN "max_turns"
    ELSE "win"

\* Variant of loop_continues: the bound is tested one turn late.
loop_continues_late(active, count) == active /\ count <= max_turns

\* Line 602: the loop test
loop_continues(active, count) == active /\ count < max_turns

\* Line 429: a player without llm_client is skipped, the turn returns True.
SkipTurn ==
    /\ pc = "turn"
    /\ UNCHANGED <<parsed_missing, fires>>
    /\ ~llm_client[player]
    /\ game_active' = TRUE
    /\ pc' = "ret"
    /\ UNCHANGED <<gun, logs, player_logs, contract, reverse, alive, items,
                   llm_client, current_player_idx, turn_count, verdict,
                   turn_locals>>

\* Line 482: send_message raises; nothing catches it.
AgentFails ==
    /\ AtItemStep
    /\ UNCHANGED <<parsed_missing, fires>>
    /\ result' = Result("Exception", -1)
    /\ pc' = IF uncaught("Exception") THEN "error" ELSE "ret"
    /\ UNCHANGED <<gun, logs, player_logs, contract, reverse, alive, items,
                   llm_client, loop, reverse_pending, fire_locals>>

\* Lines 612-616 and 622-631: the turn returned False.
EndMatch ==
    /\ pc = "ret"
    /\ UNCHANGED <<parsed_missing, fires>>
    /\ ~game_active
    /\ alive' = check_contract_effect(contract_active, alive)
    /\ verdict' = final_classification(alive')
    /\ pc' = "done"
    /\ UNCHANGED <<gun, logs, player_logs, contract, reverse, items, llm_client,
                   current_player_idx, turn_count, game_active, turn_locals>>

\* Variant of next_player: the index is not advanced.
next_player_same(idx) == idx

\* Line 619: the index of the player of the next turn
next_player(idx) == (idx + 1) % Cardinality(Players)

\* Lines 618-620 and the loop test of line 602: the turn returned True.  The
\* next turn starts with empty per-turn records.
NextTurn ==
    /\ pc = "ret"
    /\ game_active
    /\ current_player_idx' = next_player(current_player_idx)
    /\ turn_count' = turn_count + 1
    /\ IF loop_continues(game_active, turn_count')
       THEN pc' = "turn" /\ verdict' = verdict
       ELSE pc' = "done" /\ verdict' = final_classification(alive)
    /\ logs' = <<>>
    /\ player_logs' = <<>>
    /\ result' = NoResult
    /\ declared' = "none"
    /\ target' = "none"
    /\ was_hit' = FALSE
    /\ contract_at_fire' = 0
    /\ reverse_pending' = FALSE
    /\ parsed_missing' = {}
    /\ UNCHANGED <<gun, contract, reverse, alive, items, llm_client, game_active,
                   fires>>

Next ==
    \/ SkipTurn
    \/ AgentFails
    \/ NoItem
    \/ InvalidItem
    \/ UseBullet
    \/ UseCheck
    \/ UseCheckOutOfRange
    \/ UseCheckBadParam
    \/ UseReverse
    \/ UseContract
    \/ UsePush
    \/ CommSilent
    \/ CommTalk
    \/ NegotiateAccepted
    \/ NegotiateDeclined
    \/ NegotiateFails
    \/ Fire
    \/ EndMatch
    \/ NextTurn

Spec == Init /\ [][Next]_vars

\* run_game runs to its end: every step that can be taken is taken.
FairSpec == Init /\ [][Next]_vars /\ WF_vars(Next)

\* ------------------------------------------------- GameState, called directly
\* A GameState after initialize_gun, driven through its methods in any order
\* and with any argument, outside a match: pc is "api", result holds what the
\* last call returned or raised, logs and player_logs hold what it appended.
GunInit ==
    /\ chamber_count \in 2..MaxChambers
    /\ bullets \in InitialBullets(chamber_count)
    /\ current_position \in 0..(chamber_count - 1)
    /\ logs = <<spectator_init_entry(current_position, bullets)>>
    /\ player_logs = <<player_init_entry(current_position, bullets)>>
    /\ contract_active = FALSE
    /\ contract_turns_left = 0
    /\ reverse_active = FALSE
    /\ last_active_player = NoOne
    /\ alive = [p \in Players |-> TRUE]
    /\ items = [p \in Players |-> [k \in ItemKinds |-> 0]]
    /\ llm_client = [p \in Players |-> FALSE]
    /\ current_player_idx = 0
    /\ turn_count = 0
    /\ game_active = TRUE
    /\ pc = "api"
    /\ result = NoResult
    /\ declared = "none"
    /\ target = "none"
    /\ was_hit = FALSE
    /\ contract_at_fire = 0
    /\ reverse_pending = FALSE
    /\ verdict = "none"
    /\ parsed_missing = {}
    /\ fires = 0

\* What no method of GameState touches.
GunCallFrame ==
    UNCHANGED <<chamber_count, last_active_player, alive, items, llm_client,
                loop, declared, target, contract_at_fire, reverse_pending, pc,
                parsed_missing, fires>>

\* add_bullet (lines 90-106); the spectator message names the chamber.
CallAddBullet ==
    /\ pc = "api"
    /\ IF add_bullet_choices(bullets, chamber_count) # {}
       THEN \E new_bullet \in add_bullet_choices(bullets, chamber_count) :
               /\ bullets' = add_bullet(bullets, new_bullet)
               /\ result' = Result("bullet_added", new_bullet)
       ELSE /\ bullets' = bullets
            /\ result' = Result("chambers_full", -1)
    /\ logs' = <<>>
    /\ player_logs' = <<>>
    /\ GunCallFrame
    /\ UNCHANGED <<current_position, contract, reverse, was_hit>>

\* check_chamber (lines 108-121) with a position in or next to the range.
CallCheckChamber ==
    /\ pc = "api"
    /\ \E position \in (-1)..chamber_count :
          IF position < 0 \/ position >= chamber_count
          THEN /\ result' = Result("ValueError", -1)
               /\ logs' = <<>>
          ELSE LET found == has_bullet(bullets, position)
               IN /\ result' = Result(IF found THEN "has_bullet" ELSE "is_empty",
                                      position)
                  /\ logs' = <<Entry("check", player, "", position,
                                     IF found THEN "bullet" ELSE "empty",
                                     -1, <<>>)>>
    /\ player_logs' = <<>>
    /\ GunCallFrame
    /\ UNCHANGED <<bullets, current_position, contract, reverse, was_hit>>

\* move_position (lines 123-129)
CallMovePosition ==
    /\ pc = "api"
    /\ current_position' = move_position(current_position, chamber_count)
    /\ result' = Result("moved", current_position')
    /\ logs' = <<>>
    /\ player_logs' = <<>>
    /\ GunCallFrame
    /\ UNCHANGED <<bullets, contract, reverse, was_hit>>

\* activate_contract (lines 131-138)
CallActivateContract ==
    /\ pc = "api"
    /\ contract_active' = TRUE
    /\ contract_turns_left' = activate_contract
    /\ result' = Result("contract_on", -1)
    /\ logs' = <<>>
    /\ player_logs' = <<>>
    /\ GunCallFrame
    /\ UNCHANGED <<bullets, current_position, reverse_active, was_hit>>

\* activate_reverse (lines 140-146)
CallActivateReverse ==
    /\ pc = "api"
    /\ reverse_active' = TRUE
    /\ result' = Result("reverse_on", -1)
    /\ logs' = <<>>
    /\ player_logs' = <<>>
    /\ GunCallFrame
    /\ UNCHANGED <<bullets, current_position, contract, was_hit>>

\* fire (lines 148-169); it returns was_bullet.
CallFire ==
    /\ pc = "api"
    /\ was_hit' = was_bullet(bullets, current_position)
    /\ result' = Result("fired", current_position)
    /\ logs' = fire_entries(was_hit', current_position, contract_active,
                            contract_turns_left)
    /\ player_logs' = logs'
    /\ current_position' = fire_position(current_position, chamber_count)
    /\ contract_turns_left' = fire_turns_left(contract_active, contract_turns_left)
    /\ contract_active' = fire_contract_active(contract_active, contract_turns_left)
    /\ GunCallFrame
    /\ UNCHANGED <<bullets, reverse_active>>

GunNext ==
    \/ CallAddBullet
    \/ CallCheckChamber
    \/ CallMovePosition
    \/ CallActivateContract
    \/ CallActivateReverse
    \/ CallFire

GunSpec == GunInit /\ [][GunNext]_vars

\* --------------------------------------------------- the item distribution
\* The distribution block of setup_game (lines 267-277) applied to a
\* controller constructed for chamber counts around the size of the pool;
\* initialize_gun is left out, its results do not bear on the distribution.
DealInit ==
    /\ chamber_count \in MinDealChambers..MaxDealChambers
    /\ bullets = <<>>
    /\ current_position = 0
    /\ logs = <<>>
    /\ player_logs = <<>>
    /\ contract_active = FALSE
    /\ contract_turns_left = 0
    /\ reverse_active = FALSE
    /\ last_active_player = NoOne
    /\ alive = [p \in Players |-> TRUE]
    /\ items = [p \in Players |-> [k \in ItemKinds |-> 0]]
    /\ llm_client = [p \in Players |-> TRUE]
    /\ current_player_idx = 0
    /\ turn_count = 0
    /\ game_active = TRUE
    /\ pc = "setup"
    /\ result = NoResult
    /\ declared = "none"
    /\ target = "none"
    /\ was_hit = FALSE
    /\ contract_at_fire = 0
    /\ reverse_pending = FALSE
    /\ verdict = "none"
    /\ parsed_missing = {}
    /\ fires = 0

DistributeItems ==
    /\ pc = "setup"
    /\ items' \in Deals(chamber_count)
    /\ pc' = "dealt"
    /\ UNCHANGED <<gun, logs, player_logs, contract, reverse, alive, llm_client,
                   loop, turn_locals, parsed_missing, fires>>

DealNext == DistributeItems

DealSpec == DealInit /\ [][DealNext]_vars

\* =================================================================== claims
Last(s) == s[Len(s)]

\* The match ended by an accepted negotiation: the last turn returned False
\* without a fire.
Negotiated == pc = "done" /\ ~game_active /\ target = "none"

\* A fire has been executed in the turn the state belongs to.
Fired == target # "none"

\* Turns for which process_player_turn has been entered.
TurnsStarted ==
    turn_count + (IF \/ pc \in {"comm", "fire", "ret", "error"}
                     \/ (pc = "done" /\ ~game_active)
                  THEN 1 ELSE 0)

\* C1: a hit fired while the contract was active (turns_remaining >= 1 just
\* before the fire) leaves both players not alive and the match a
\* mutual-death draw.
C1_ContractHitKillsBoth ==
    (pc = "done" /\ Fired /\ was_hit /\ contract_at_fire >= 1)
        => /\ \A p \in Players : ~alive[p]
           /\ verdict = "all_dead"

\* C2: when a Reverse of the other player is pending at the start of a turn
\* and the turn reaches its fire step, the target fired at is the opposite of
\* the declared one, whatever item and communication were chosen, and reverse
\* is inactive afterwards.
C2_ReverseFlipsNextOpponentFire ==
    (Fired /\ reverse_pending) => (target # declared /\ ~reverse_active)

\* C3: an accepted negotiation ends the match in that turn without a fire:
\* the communication step changes neither gun nor contract nor alive flags,
\* the match then ends with both flags as they were (contract active or not)
\* and nothing happens after the end; a declined negotiation continues to the
\* fire step, which executes exactly one fire.
C3_NegotiationOutcome ==
    [][/\ (pc = "comm" /\ Last(logs').kind = "response" /\ is_accepted(Last(logs').res))
            => /\ pc' = "ret" /\ ~game_active' /\ target' = "none"
               /\ UNCHANGED <<current_position, bullets, contract, alive>>
       /\ (pc = "ret" /\ ~game_active /\ target = "none")
            => /\ pc' = "done"
               /\ UNCHANGED <<current_position, bullets, contract, alive, turn_count>>
       /\ pc # "done"
       /\ (pc = "comm" /\ Last(logs').kind = "response" /\ ~is_accepted(Last(logs').res))
            => pc' = "fire" /\ game_active' /\ UNCHANGED <<gun, contract, alive>>
       /\ pc = "fire"
            => /\ pc' = "ret" /\ target' # "none"
               /\ current_position' = (current_position + 1) % chamber_count
      ]_vars

C3_Witness ==
    /\ Negotiated
    /\ contract_active
    /\ \A p \in Players : alive[p]

\* C4: a finished match has one of four classifications, a match ended by an
\* accepted negotiation is a negotiated draw, and the max-turns draw is given
\* only when the turn bound was reached.
C4_FourClassifications ==
    pc = "done"
        => /\ verdict \in {"win", "all_dead", "negotiated", "max_turns"}
           /\ Negotiated => verdict = "negotiated"
           /\ verdict = "max_turns" => turn_count = max_turns

\* C5: at most max_turns turns are ever started, and if no Agent call fails
\* the match reaches its end.
C5_Terminates ==
    /\ [](TurnsStarted <= max_turns)
    /\ ([](pc # "error") => <>(pc = "done"))

C5_Witness ==
    /\ pc = "done"
    /\ \A p \in Players : llm_client[p]
    /\ turn_count >= 2

\* C6: after max_turns turns without a hit or an accepted negotiation the
\* match has stopped, both players are alive and the classification is the
\* max-turns draw.
C6_MaxTurnsDraw ==
    /\ turn_count <= max_turns
    /\ turn_count = max_turns
          => /\ pc = "done"
             /\ \A p \in Players : alive[p]
             /\ verdict = "max_turns"

C6_Witness == turn_count = max_turns /\ pc = "done" /\ game_active

\* C7: fire() reports a hit exactly when the chamber under the trigger holds a
\* bullet, advances the trigger by one modulo chamber_count on hit and miss
\* alike, and leaves the bullets alone.
C7_Fire ==
    [][pc = "fire"
          => /\ was_hit' = (\E i \in 1..Len(bullets) : bullets[i] = current_position)
             /\ current_position' = (current_position + 1) % chamber_count
             /\ bullets' = bullets
      ]_vars

C7_Witness ==
    /\ pc = "ret" /\ Fired /\ was_hit
    /\ chamber_count = 3
    /\ current_position = 0

\* C8: initialization yields between 1 and floor(N/2) bullets; in every state
\* the bullets are distinct chamber indices, at least one, and the trigger
\* position is a chamber index.
C8_GunInvariant ==
    /\ \A N \in 2..MaxChambers : InitialBullets(N) # {}
    /\ (pc = "turn" /\ turn_count = 0)
          => (1 <= Len(bullets) /\ Len(bullets) <= chamber_count \div 2)
    /\ \A i \in 1..Len(bullets) : bullets[i] \in 0..(chamber_count - 1)
    /\ \A i, j \in 1..Len(bullets) : i # j => bullets[i] # bullets[j]
    /\ Len(bullets) >= 1
    /\ current_position \in 0..(chamber_count - 1)

C8_Witness ==
    /\ Len(bullets) > chamber_count \div 2
    /\ turn_count >= 1
    /\ result.msg = "moved"

\* C9: activating Contract sets (active, 3), also over an active contract; a
\* fire under an active contract lowers the counter by one and ends the
\* contract exactly when the counter reaches 0; nothing else changes the
\* contract.
ContractActivated == pc = "turn" /\ result'.msg = "contract_on"

C9_ContractCountdown ==
    [][/\ ContractActivated
            => contract_active' /\ contract_turns_left' = ContractTurns
       /\ (pc = "fire" /\ contract_active)
            => /\ contract_turns_left' = contract_turns_left - 1
               /\ contract_active' = (contract_turns_left' # 0)
       /\ (pc = "fire" /\ ~contract_active) => UNCHANGED contract
       /\ (pc # "fire" /\ ~ContractActivated) => UNCHANGED contract
       /\ (pc = "fire" /\ contract_active /\ contract_turns_left = 1 /\ ~was_hit')
            => /\ contract_turns_left' = 0 /\ ~contract_active'
               /\ alive' = alive
      ]_vars

C9_Witness ==
    /\ pc = "ret" /\ Fired /\ ~was_hit
    /\ contract_at_fire = 1
    /\ ~contract_active /\ contract_turns_left = 0
    /\ \A p \in Players : alive[p]

\* C10: the participant log records an item activation without the kind of
\* the item.
C10_ParticipantLogHidesItemKind ==
    \A i \in 1..Len(player_logs) :
        player_logs[i].kind = "use" => player_logs[i].item = ""

\* C11: no entry of the participant log, and so no request to an Agent, tells
\* where the bullets are: the setup entry gives the number of bullets and the
\* trigger position only, an item entry gives no position and no chamber
\* content, no inspection entry is written, and a fire entry tells the content
\* of the chamber that was fired and of no other.
Redacted(e) ==
    /\ e.bul = <<>>
    /\ e.kind # "check"
    /\ e.kind = "fire" => fire_position(e.pos, chamber_count) = current_position
    /\ e.kind \notin {"fire", "init"} => e.pos = -1
    /\ e.kind \notin {"fire", "response"} => e.res = ""

C11_NoPlacementInParticipantLog ==
    /\ \A i \in 1..Len(turn_request.log) : Redacted(turn_request.log[i])
    /\ \A i \in 1..Len(neg_request.log) : Redacted(neg_request.log[i])

C11_Witness ==
    /\ pc = "comm"
    /\ turn_count = 0
    /\ result.msg = "has_bullet"
    /\ Len(player_logs) = 2
    /\ Len(logs) = 3

\* C12: after a successful inspection the content of the inspected chamber is
\* part of what the engine sends to the Agent of the acting player, and of
\* nothing it sends to the Agent of the opponent.  At the end of the turn the
\* participant log is complete for the turn, and it is the only part of a later
\* request that is not a current value of the state.
Inspected == result.msg \in {"has_bullet", "is_empty"}

Tells(request) ==
    \E i \in 1..Len(request.log) :
        /\ request.log[i].pos = result.pos
        /\ request.log[i].res \in {"has_bullet", "is_empty"}

C12_InspectResultDelivered ==
    (pc = "ret" /\ Inspected) => (Tells(turn_request) /\ ~Tells(neg_request))

\* C13: a hit fired while no contract is active makes exactly one player not
\* alive, the actor if the effective target is "self" and the opponent
\* otherwise; the match ends in that turn and the other player, still alive,
\* is the winner.
Victim == IF target = "self" THEN player ELSE opponent

C13_HitWithoutContract ==
    (pc \in {"ret", "done"} /\ Fired /\ was_hit /\ contract_at_fire = 0)
        => /\ ~alive[Victim]
           /\ alive[get_opponent(Victim)]
           /\ ~game_active
           /\ pc = "done" => verdict = "win"

C13_Witness ==
    /\ pc = "done"
    /\ was_hit
    /\ contract_at_fire = 0
    /\ declared = "opponent"
    /\ target = "self"
    /\ ~alive[player]
    /\ alive[opponent]
    /\ verdict = "win"

\* C14: an alive flag only goes from true to false, and only in a turn whose
\* fire was a hit; once a player is not alive the match only ends: no turn is
\* started, no item is activated, nothing is fired or logged.
SomeoneDead == \E p \in Players : ~alive[p]

C14_AliveOnlyFallsOnHit ==
    [][/\ \A p \in Players : alive'[p] => alive[p]
       /\ alive' # alive => (pc \in {"fire", "ret"} /\ Fired' /\ was_hit')
       /\ SomeoneDead
            => /\ pc = "ret"
               /\ pc' = "done"
               /\ UNCHANGED <<gun, logs, player_logs, contract, reverse, items,
                              current_player_idx, turn_count, turn_locals>>]_vars

C14_Witness ==
    /\ pc = "done"
    /\ turn_count = 2
    /\ SomeoneDead
    /\ \E p \in Players : alive[p]

\* C15: an answer naming an item the player does not hold, or no item of the
\* game, changes nothing: inventories, gun, Reverse, Contract and both logs
\* stay as they are and the turn goes on with communication.  Conversely, an
\* item step that changes any of them logs the use of an item the player held.
ItemStepFrame == <<items, gun, contract, reverse, logs, player_logs, alive>>

C15_InvalidItemChangesNothing ==
    [][pc = "turn"
         => /\ result'.msg = "invalid_item"
                => (UNCHANGED ItemStepFrame /\ pc' = "comm")
            /\ ItemStepFrame' # ItemStepFrame
                => /\ Last(logs').kind = "use"
                   /\ items[player][Last(logs').item] > 0]_vars

C15_Witness ==
    /\ pc = "ret"
    /\ Fired
    /\ result.msg = "invalid_item"
    /\ Total(items[player], ItemKinds) > 0

\* C16: an inspection whose position is missing, not a number or outside
\* 1..chamber_count does not consume the item, reveals no chamber content,
\* leaves the gun, the Contract and the Reverse state unchanged and raises no
\* error out of the turn, which goes on with communication.
FailedCheck == result'.msg \in {"invalid_position", "need_position"}

C16_FailedInspect ==
    [][pc = "turn"
         => /\ result'.msg \notin {"TypeError", "ValueError"}
            /\ Inspected' => result'.pos \in 0..(chamber_count - 1)
            /\ FailedCheck
                => /\ items' = items
                   /\ UNCHANGED <<gun, contract, reverse, alive>>
                   /\ pc' = "comm"
                   /\ result'.pos = -1
                   /\ \A i \in (Len(logs) + 1)..Len(logs') :
                         logs'[i].kind # "check"
                   /\ \A i \in (Len(player_logs) + 1)..Len(player_logs') :
                         Redacted(player_logs'[i])]_vars

C16_Witness ==
    /\ pc = "ret"
    /\ Fired
    /\ result.msg = "need_position"
    /\ items[player]["Check"] > 0

\* C17: a failed inspection has no effect but the message it returns: after
\* it neither log holds an entry stating that the player used an item (the
\* logs hold the entries of the current turn, and the item step is its first).
C17_FailedInspectLogsNothing ==
    (pc = "comm" /\ result.msg \in {"invalid_position", "need_position"})
        => /\ \A i \in 1..Len(logs) : logs[i].kind # "use"
           /\ \A i \in 1..Len(player_logs) : player_logs[i].kind # "use"

\* C18: a successful activation removes exactly one unit of the activated
\* kind from the inventory of the actor and nothing else from any inventory;
\* a failed or invalid activation, and every step that is no activation,
\* removes nothing.  So a unit is activated successfully at most once.
Successful ==
    {"bullet_added", "chambers_full", "has_bullet", "is_empty", "reverse_on",
     "contract_on", "moved"}

AddBulletCalled == pc = "api" /\ result'.msg \in {"bullet_added", "chambers_full"}

C19_AddBullet ==
    [][AddBulletCalled
         => /\ current_position' = current_position
            /\ IF Len(bullets) < chamber_count
               THEN /\ result'.msg = "bullet_added"
                    /\ result'.pos \in 0..(chamber_count - 1)
                    /\ result'.pos \notin Range(bullets)
                    /\ Range(bullets') = Range(bullets) \cup {result'.pos}
                    /\ Len(bullets') = Len(bullets) + 1
               ELSE /\ result'.msg = "chambers_full"
                    /\ bullets' = bullets]_vars

C19_Witness ==
    /\ pc = "api"
    /\ chamber_count = MaxChambers
    /\ Len(bullets) = chamber_count
    /\ result.msg = "chambers_full"

\* C20: Push moves current_position on by exactly one chamber, modulo
\* chamber_count, and fires nothing: bullets, alive flags, the Contract
\* counter and the Reverse state are as before the push, and no fire is logged.
Pushed == pc = "turn" /\ result'.msg = "moved"

C20_PushOnlyMoves ==
    [][Pushed
         => /\ current_position' = (current_position + 1) % chamber_count
            /\ result'.pos = current_position'
            /\ UNCHANGED <<chamber_count, bullets, alive, contract, reverse,
                           fire_locals, game_active>>
            /\ \A i \in 1..Len(logs') : logs'[i].kind # "fire"
            /\ \A i \in 1..Len(player_logs') : player_logs'[i].kind # "fire"]_vars

C20_Witness ==
    /\ pc = "comm"
    /\ result.msg = "moved"
    /\ chamber_count = MaxChambers
    /\ current_position = 0
    /\ Len(bullets) > 0

\* C21: a successful inspection of position p returns exactly whether p holds
\* a bullet, changes neither the bullets nor current_position nor the Contract
\* or Reverse state, and writes the position with the result to the spectator
\* log only: the one entry the participant log gains has neither.
C21_InspectFrame ==
    [][(pc = "turn" /\ Inspected')
         => /\ result'.pos \in 0..(chamber_count - 1)
            /\ result'.msg = "has_bullet" <=> result'.pos \in Range(bullets)
            /\ UNCHANGED <<gun, contract, reverse, alive>>
            /\ Len(logs') = Len(logs) + 2
            /\ LET e == logs'[Len(logs) + 1]
               IN /\ e.kind = "check"
                  /\ e.pos = result'.pos
                  /\ e.res = "bullet" <=> result'.pos \in Range(bullets)
                  /\ e.res = "empty" <=> result'.pos \notin Range(bullets)
            /\ Len(player_logs') = Len(player_logs) + 1
            /\ LET e == Last(player_logs')
               IN e.kind = "use" /\ e.pos = -1 /\ e.res = ""]_vars

C21_Witness ==
    /\ pc = "comm"
    /\ result.msg = "is_empty"
    /\ result.pos # current_position
    /\ has_bullet(bullets, current_position)
    /\ Last(logs).pos = result.pos

\* C22: the default of a missing section is applied section by section: with
\* no item section no item is used, with no communication section the player
\* stays silent, with no fire section the target is the opponent; whatever
\* the other sections were, a step with a missing section neither ends nor
\* aborts the match, and the fire step always fires.
Defaulted(key) == key \in parsed_missing' /\ key \notin parsed_missing

C22_SectionDefaults ==
    [][/\ Defaulted("item")
            => /\ pc = "turn" /\ pc' = "comm"
               /\ result' = NoResult
               /\ UNCHANGED ItemStepFrame
       /\ Defaulted("communication")
            => /\ pc = "comm" /\ pc' = "fire"
               /\ Last(logs').kind = "silent"
               /\ Last(player_logs').kind = "silent"
               /\ UNCHANGED <<result, items, gun, contract, reverse, alive>>
       /\ Defaulted("target")
            => /\ pc = "fire" /\ pc' = "ret"
               /\ declared' = "opponent"
               /\ UNCHANGED <<result, items>>
       /\ pc = "fire" => (pc' = "ret" /\ Fired')
       /\ pc' = "error" => parsed_missing' = parsed_missing]_vars

C22_Witness ==
    /\ pc = "ret"
    /\ Fired
    /\ parsed_missing = {"item", "communication", "target"}
    /\ declared = "opponent"
    /\ result = NoResult

\* C23: when a call of an Agent fails, in the turn request or in the nested
\* negotiation request, the match stops there: nothing is fired in that turn,
\* no player is marked not alive, no later turn is taken and no winner or
\* draw is declared.
AgentCallFailed ==
    /\ result'.msg \in {"Exception", "AttributeError"}
    /\ result.msg \notin {"Exception", "AttributeError"}

C23_AgentFailureIsFatal ==
    [][/\ pc # "error"
       /\ AgentCallFailed
            => /\ pc' = "error"
               /\ ~Fired'
               /\ \A p \in Players : alive'[p]
               /\ verdict' = "none"
               /\ UNCHANGED <<gun, contract, reverse, items, loop>>]_vars

C23_Witness ==
    /\ pc = "error"
    /\ result.msg = "Exception"
    /\ turn_count = 1
    /\ Len(logs) > 0
    /\ Last(logs).kind = "propose"
    /\ Total(items[player], ItemKinds) = 0

\* C24: turns alternate.  Either player can start; the player index changes
\* exactly when the turn counter goes up by one, and then to the other
\* player, so that turn k is taken by player (start + k) mod 2 and nobody
\* takes two turns in a row; the opponent of the actor is the other player.
C24_TurnsAlternate ==
    [][/\ turn_count' \in {turn_count, turn_count + 1}
       /\ turn_count' = turn_count => current_player_idx' = current_player_idx
       /\ turn_count' = turn_count + 1
            => /\ current_player_idx' \in Players
               /\ current_player_idx' # current_player_idx
       /\ opponent \in Players \ {player}
       /\ get_opponent(get_opponent(player)) = player]_vars

C24_Witness ==
    /\ pc = "comm"
    /\ turn_count = 3
    /\ current_player_idx = 0
    /\ llm_client[0]
    /\ llm_client[1]

\* C25: both logs are append-only.  The model holds the part of each log
\* written in the current turn, so within a turn every step leaves each log a
\* prefix of its next value; the step that starts the next turn moves on to
\* an empty part and touches no entry.
IsPrefix(s, t) == Len(s) <= Len(t) /\ SubSeq(t, 1, Len(s)) = s

Ceil3(N) == IF N % 3 = 0 THEN N \div 3 ELSE (N \div 3) + 1

Dealt == IF pc = "dealt" THEN TRUE ELSE pc = "turn" /\ turn_count = 0

C26_EachPlayerGetsCeil ==
    Dealt => \A p \in Players :
                 /\ DOMAIN items[p] = ItemKinds
                 /\ Total(items[p], ItemKinds) = Ceil3(chamber_count)

\* C27: the two localized engines have the same mechanics; in particular
\* initialize_gun succeeds in both and allows the same bullet counts, so the
\* gun a match of game.py starts with is one game_en.py can start with.
C27_SameInitialGuns ==
    (pc = "turn" /\ turn_count = 0)
        => /\ BulletCounts_en(chamber_count) # {}
           /\ BulletCounts_en(chamber_count) = BulletCounts(chamber_count)
           /\ bullets \in InitialBullets_en(chamber_count)

\* C28: for a successful Reverse, Contract or Push the entry appended to the
\* spectator log and the entry appended to the participant log are the same.
C28_ModifierEntriesIdentical ==
    (pc = "comm" /\ result.msg \in {"reverse_on", "contract_on", "moved"})
        => Last(logs) = Last(player_logs)

\* C29: a turn runs in the order item step, communication (with the whole
\* negotiation exchange), Reverse rule, one fire.  Communication changes no
\* inventory, gun or modifier, so an item used before an accepted negotiation
\* stays consumed; the fire tests the chamber under the trigger and the
\* bullets as the item step left them: after a Push the chamber pushed to,
\* a bullet added in the turn can be the one hit, and a Contract activated in
\* the turn is at its full count when the shot is fired.
FireEntries(log) == {i \in 1..Len(log) : log[i].kind = "fire"}

AddedUnderTrigger ==
    \E i \in 1..Len(logs) :
        /\ logs[i].kind = "use"
        /\ logs[i].item = "Bullet"
        /\ logs[i].pos = current_position

C29_TurnOrder ==
    [][/\ pc = "turn" => (pc' \in {"comm", "ret", "error"} /\ ~Fired')
       /\ pc = "comm"
            => /\ pc' \in {"fire", "ret", "error"}
               /\ ~Fired'
               /\ FireEntries(logs') = {}
               /\ UNCHANGED <<items, gun, contract, reverse>>
       /\ pc = "fire"
            => /\ pc' = "ret"
               /\ Fired'
               /\ Cardinality(FireEntries(logs')) = 1
               /\ Cardinality(FireEntries(player_logs')) = 1
               /\ was_hit' <=> current_position \in Range(bullets)
               /\ result.msg = "moved" => result.pos = current_position
               /\ AddedUnderTrigger => was_hit'
               /\ result.msg = "contract_on" => contract_at_fire' = ContractTurns
               /\ UNCHANGED <<items, bullets>>
       /\ pc \in {"ret", "done", "error"} => UNCHANGED <<gun, items>>]_vars

C29_Witness ==
    /\ pc = "ret"
    /\ Fired
    /\ was_hit
    /\ result.msg = "moved"
    /\ ~has_bullet(bullets, (result.pos + chamber_count - 1) % chamber_count)
    /\ Len(logs) > 2
    /\ logs[Len(logs) - 1].kind = "response"

\* C30: Reverse is cleared only by a flip.  The fire of the player recorded as
\* the one who activated the pending Reverse is not flipped and leaves it
\* active; communication, an accepted negotiation included, leaves it as it
\* is; a fire is flipped exactly when Reverse is active and was activated by
\* the other player, and Reverse becomes inactive in exactly those steps.
Flipped == target' # declared'

C30_ReverseClearedByFlip ==
    [][/\ pc = "fire"
            => /\ Flipped <=> (reverse_active /\ last_active_player # player)
               /\ Flipped => ~reverse_active'
               /\ ~Flipped => reverse_active' = reverse_active
               /\ (reverse_active /\ last_active_player = player)
                    => (~Flipped /\ reverse_active')
               /\ last_active_player' = last_active_player
       /\ pc # "fire" => (reverse_active => reverse_active')
       /\ pc = "comm" => UNCHANGED reverse]_vars

C30_Witness ==
    /\ pc = "ret"
    /\ Fired
    /\ turn_count = 2
    /\ result.msg # "reverse_on"
    /\ reverse_active
    /\ last_active_player = player
    /\ target = declared

\* C31: the contract flag and its counter agree in every state: the contract
\* is active exactly when 1 <= contract_turns_left <= 3 and inactive exactly
\* when the counter is 0; the counter is never negative and never above 3.
C31_ContractFlagAndCounter ==
    /\ contract_turns_left \in 0..ContractTurns
    /\ contract_active <=> contract_turns_left \in 1..ContractTurns
    /\ ~contract_active <=> contract_turns_left = 0

C31_Witness ==
    /\ pc = "ret"
    /\ Fired
    /\ contract_active
    /\ contract_turns_left = 1
    /\ contract_at_fire = 2

\* C32: at the start of every turn of a match at least one chamber is empty.
\* The chambers become full only by a Bullet used in the turn, whose own fire
\* then hits unless the turn ends before it; so add_bullet is never called in
\* a match with every chamber loaded.
ChambersFull == Len(bullets) = chamber_count

C32_NeverFullAtTurnStart ==
    [][/\ pc = "turn" => ~ChambersFull
       /\ result'.msg # "chambers_full"
       /\ (ChambersFull' /\ ~ChambersFull)
            => (pc = "turn" /\ result'.msg = "bullet_added")
       /\ (pc = "fire" /\ ChambersFull) => (was_hit' /\ ~game_active')
       /\ ChambersFull => pc' # "turn"]_vars

C32_Witness ==
    /\ pc = "ret"
    /\ ChambersFull
    /\ chamber_count = MaxChambers
    /\ result.msg = "bullet_added"
    /\ was_hit

\* C33: in a match in which no Push has been used successfully, at most
\* chamber_count fires are executed and the fire number chamber_count is a hit
\* that ends the match; when both players are driven by an Agent, such a match
\* never starts more than chamber_count turns, never reaches max_turns, and
\* when it is over it ended by a hit or by an accepted negotiation.
AllAgents == \A p \in Players : llm_client[p]

C33_NoPushHitsWithinN ==
    fires >= 0
        => /\ fires \in 0..chamber_count
           /\ fires = chamber_count => (was_hit /\ ~game_active)
           /\ AllAgents
                => /\ TurnsStarted <= chamber_count
                   /\ turn_count < max_turns
                   /\ pc = "done"
                        => /\ ~game_active
                           /\ SomeoneDead \/ Negotiated

C33_Witness ==
    /\ pc = "done"
    /\ AllAgents
    /\ chamber_count = MaxChambers
    /\ fires = chamber_count
    /\ TurnsStarted = chamber_count
    /\ SomeoneDead

\* C34: the trigger moves only in the item step of a successful Push and in
\* the fire step, by one chamber (mod chamber_count) each time; the
\* communication step, the return of the turn and the change of turn leave it
\* where it is.  So a turn that fired ends one chamber after the position the
\* item step left, which is two chambers after the start of the turn when a
\* Push was used, and a turn ended by an accepted negotiation ends where the
\* item step left the trigger.
PushedInTurn == result.msg = "moved"

C34_TriggerMoves ==
    [][/\ pc = "turn"
            => current_position' = IF Pushed
                                   THEN (current_position + 1) % chamber_count
                                   ELSE current_position
       /\ pc = "fire"
            => /\ Fired'
               /\ current_position' = (current_position + 1) % chamber_count
       /\ pc \notin {"turn", "fire"} => current_position' = current_position
       /\ (pc' = "ret" /\ Fired' /\ PushedInTurn')
            => current_position' = (result'.pos + 1) % chamber_count
       /\ (pc' = "ret" /\ ~Fired' /\ ~game_active' /\ PushedInTurn')
            => current_position' = result'.pos]_vars

C34_Witness ==
    /\ pc = "ret"
    /\ Fired
    /\ PushedInTurn
    /\ chamber_count = MaxChambers
    /\ result.pos = 0
    /\ current_position = 1

\* C35: after setup no inventory grows; an inventory changes only in the item
\* step of a turn, it is the inventory of the player of the turn, and it loses
\* exactly one unit of the kind that was used successfully; the inventory of
\* the opponent is the same after every step, the answer to a negotiation
\* included.
C35_InventoryFrame ==
    [][/\ \A p \in Players : \A kind \in ItemKinds :
                items'[p][kind] <= items[p][kind]
       /\ items'[opponent] = items[opponent]
       /\ items' # items
            => /\ pc = "turn"
               /\ pc' = "comm"
               /\ result'.msg \in Successful
               /\ Total(items'[player], ItemKinds)
                     = Total(items[player], ItemKinds) - 1]_vars

C35_Witness ==
    /\ pc = "ret"
    /\ ~game_active
    /\ ~Fired
    /\ Last(logs).kind = "response"
    /\ result.msg \in Successful
    /\ Total(items[player], ItemKinds) = 0
    /\ Total(items[opponent], ItemKinds) = 1

\* C36: the participant log is the spectator log without its inspection
\* entries: it is never longer, the difference of the lengths is the number of
\* successful inspections logged (one per successful Check), and the other
\* entries (setup, item use, communication, fire, end of the Contract)
\* are the same events in the same order in both logs, with the same actor,
\* kind of item, trigger position and outcome; only the positions of the
\* bullets are left out of the participant entry.
NotInspection(e) == e.kind # "check"

Inspections == {i \in 1..Len(logs) : logs[i].kind = "check"}

SameEvent(e, f) ==
    /\ e.kind = f.kind
    /\ e.who = f.who
    /\ e.item = f.item
    /\ e.n = f.n
    /\ e.kind \in {"init", "fire"} => e.pos = f.pos
    /\ e.kind \in {"fire", "response"} => e.res = f.res

C36_ParticipantLogIsRestriction ==
    LET shared == SelectSeq(logs, NotInspection)
    IN /\ Len(player_logs) <= Len(logs)
       /\ Len(logs) - Len(player_logs) = Cardinality(Inspections)
       /\ \A i \in 1..Len(logs) :
             logs[i].kind = "check"
                <=> /\ i < Len(logs)
                    /\ logs[i + 1].kind = "use"
                    /\ logs[i + 1].item = "Check"
                    /\ logs[i + 1].res = "checked"
                    /\ logs[i + 1].pos = logs[i].pos
       /\ pc # "error" => Cardinality(Inspections) = IF Inspected THEN 1 ELSE 0
       /\ Len(shared) = Len(player_logs)
       /\ \A i \in 1..Len(player_logs) :
             /\ SameEvent(shared[i], player_logs[i])
             /\ player_logs[i].kind \in {"init", "use", "silent", "talk",
                                          "propose", "response", "fire",
                                          "contract_end"}

C36_Witness ==
    /\ pc = "ret"
    /\ Fired
    /\ Inspected
    /\ turn_count = 0
    /\ Len(logs) = Len(player_logs) + 1
    /\ logs[1].kind = "init"
    /\ logs[2].kind = "check"
    /\ logs[3].kind = "use"
    /\ player_logs[2].kind = "use"
    /\ Last(logs).kind = "fire"
    /\ Last(player_logs).kind = "fire"

\* C37: when the match is over, the total of turns run_game reports, the value
\* of turn_count, is the number of turns process_player_turn was entered for,
\* the turn that ended the match by a hit or an accepted negotiation included.
C37_ReportedTurnsAreProcessed ==
    pc = "done" => turn_count = TurnsStarted

====
